---- MODULE Spec2Model ----
(***************************************************************************)
(* A model of src/LightGCN.ipynb: the convergence controller               *)
(* (EarlyStopping), the multi-epoch driver (train_lightgcn), one training  *)
(* epoch (sample_user_triplets, train_one_epoch, bpr_loss), the evaluator  *)
(* (evaluate_model and its metrics), the graph builder                     *)
(* (LightGCN.__init__, build_adj_matrix), the propagation                  *)
(* (LightGCN.getEmbedding, forward) and the interaction dictionary.        *)
(*                                                                         *)
(* Each part has its own specification over its own variables; the         *)
(* variables of the other parts are left alone by it.  Numbers that are    *)
(* floats in the program are modelled by integers (scores, losses) or by   *)
(* exact fractions <<numerator, denominator>> (metrics, mean loss).        *)
(***************************************************************************)
EXTENDS Integers, Sequences, FiniteSets, TLC

VARIABLES
    \* EarlyStopping (src lines 335-349)
    patience, delta, best_score, counter, early_stop,
    n_calls,            \* history: number of __call__ invocations so far
    fired_at,           \* history: the observations at which the strike counter reached patience
    observed,           \* history: the scores __call__ was given, in order
    accepted,           \* history: those of them that line 346 stored as best_score
    \* train_lightgcn (src lines 505-537)
    pc_tr, epochs, epoch, recall,
    trained,            \* history: number of train_one_epoch calls
    evaluated,          \* history: number of evaluate_model calls
    ret_tr,             \* what the call handed to its caller: <<>> for None or nothing
    \* train_one_epoch, sample_user_triplets, bpr_loss (src lines 307-319, 446-495)
    pc_ep, user_item_dict, all_items, batch_size, users, u_i, samples,
    tensors,            \* users_tensor, pos_tensor, neg_tensor: one sequence of triples
    total_loss, num_batches, start, ret,
    opt_steps,          \* history: number of optimizer.step() calls
    loss_out,           \* the value a direct call of bpr_loss returned
    \* recall_at_k, precision_at_k, ndcg_at_k (src lines 368-382)
    pc_m, ranked_list, ground_truth, k, metrics,
    \* evaluate_model (src lines 385-415); it also reads user_item_dict, k, batch_size
    pc_ev, num_items, user_emb, item_emb, test_ground_truth, test_users,
    i_ev,               \* the loop variable i of line 396
    recall_list, precision_list, ndcg_list, ret_ev,
    topk_ties,          \* how torch.topk orders equal scores: "low" or "high" index first
    eval_log,           \* history: per evaluated user, its candidates and ranked_items
    \* LightGCN.__init__ and build_adj_matrix (src lines 186-225); they also read num_items
    pc_adj, num_users, user_item_pairs, R, adj, rowsum, norm_adj,
    model,              \* the caller's binding of line 653: <<>> while no model exists
    \* the notebook's calls on the interaction dictionary (src lines 126-155, 511-513)
    pc_run, interactions,
    n_train,            \* history: number of train_one_epoch calls since the rebuild
    n_eval,             \* history: number of evaluate_model calls since the rebuild
    \* LightGCN.getEmbedding and forward (src lines 236-249, 272-289); they also
    \* read norm_adj and num_users
    user_embedding, item_embedding,     \* the weight tables, one number per row
    num_layers,
    out_get,            \* what the last getEmbedding returned: <<>> or <<(user_emb, item_emb)>>
    out_fwd,            \* what the last forward returned
    stepped             \* history: optimizer.step() has changed the tables

esVars == <<patience, delta, best_score, counter, early_stop, n_calls, fired_at,
            observed, accepted>>
trVars == <<pc_tr, epochs, epoch, recall, trained, evaluated, ret_tr>>
epVars == <<pc_ep, user_item_dict, all_items, batch_size, users, u_i, samples,
            tensors, total_loss, num_batches, start, ret, opt_steps, loss_out>>
epRestVars == <<pc_ep, all_items, batch_size, users, u_i, samples,
                tensors, total_loss, num_batches, start, ret, opt_steps, loss_out>>
mVars == <<pc_m, ranked_list, ground_truth, k, metrics>>
evVars == <<pc_ev, num_items, user_emb, item_emb, test_ground_truth, test_users, i_ev,
            recall_list, precision_list, ndcg_list, ret_ev, topk_ties, eval_log>>
adjVars == <<pc_adj, num_users, user_item_pairs, R, adj, rowsum, norm_adj, model>>
runVars == <<pc_run, interactions, n_train, n_eval>>
propVars == <<user_embedding, item_embedding, num_layers, out_get, out_fwd, stepped>>
vars == <<esVars, trVars, epVars, mVars, evVars, adjVars, runVars, propVars>>

(***************************************************************************)
(* Bounds of the model.                                                    *)
(***************************************************************************)
MaxPatience == 2
MaxDelta == 1
MaxScore == 2
MaxCalls == 5
MaxEpochs == 4
NumUsersEp == 2         \* users of the interaction dictionary of an epoch
NumItemsEp == 2         \* model.num_items of an epoch
MaxBatchSize == 2
MaxDirectBatch == 1     \* longest batch handed to bpr_loss directly
NumItemsM == 3          \* items a ranked list or a ground truth is drawn from
MaxRanked == 3          \* longest ranked list
MaxGtLen == 2           \* longest ground-truth list
MaxK == 3
NumUsersEv == 2         \* users of an evaluation
NumItemsEv == 2         \* model.num_items of an evaluation
MaxGtLenEv == 1         \* longest held-out list of an evaluation
MaxKEv == 2
MaxBatchSizeEv == 2
NumUsersAdj == 2        \* model.num_users of a graph build
NumItemsAdj == 2        \* model.num_items of a graph build
MaxPairs == 2           \* longest list of interaction pairs
NumUsersRun == 2        \* lines of train.txt and of test.txt
NumItemsRun == 2        \* item ids of those lines
MaxRunCalls == 2        \* calls of each of train_one_epoch and evaluate_model
NumUsersProp == 1       \* model.num_users of a propagation
NumItemsProp == 1       \* model.num_items of a propagation
MaxNnz == 1             \* most entries of the sparse norm_adj of a propagation
MaxLayers == 2          \* largest num_layers

\* The scores the evaluator may report (recall values, scaled to integers).
Scores == 0 .. MaxScore

(***************************************************************************)
(* EarlyStopping.  best_score is <<>> for None and <<s>> for the score s.  *)
(***************************************************************************)
EarlyStopping_init(p, d) ==
    /\ patience = p
    /\ delta = d
    /\ best_score = <<>>
    /\ counter = 0
    /\ early_stop = FALSE

Improved_AnyChange(current_score) ==
    best_score = <<>> \/ current_score # best_score[1]

\* The test of line 345.
Improved(current_score) ==
    best_score = <<>> \/ current_score > best_score[1] + delta

\* EarlyStopping.__call__ (lines 344-349): the whole method.  It assigns
\* best_score and counter only; no statement of it assigns early_stop.
EarlyStopping_call(current_score) ==
    /\ IF Improved(current_score)
       THEN /\ best_score' = <<current_score>>
            /\ counter' = 0
       ELSE /\ counter' = counter + 1
            /\ UNCHANGED best_score
    /\ UNCHANGED <<patience, delta, early_stop>>
    /\ n_calls' = n_calls + 1
    /\ fired_at' = IF counter' = patience THEN Append(fired_at, n_calls')
                                          ELSE fired_at
    /\ observed' = Append(observed, current_score)
    /\ accepted' = IF Improved(current_score) THEN Append(accepted, current_score)
                                               ELSE accepted

(***************************************************************************)
(* Floats that may be nan: <<"nan", 0>> or <<"f", v>>.                     *)
(***************************************************************************)
NaN == <<"nan", 0>>
Finite(v) == <<"f", v>>
IsNaN(x) == x[1] = "nan"
FAdd(x, y) == IF IsNaN(x) \/ IsNaN(y) THEN NaN ELSE Finite(x[2] + y[2])

\* The finite values a batch's loss may take (they depend on the embeddings).
LossValues == {1, 2}

Min(a, b) == IF a <= b THEN a ELSE b

\* All orders of the elements of a sequence (random.shuffle, np.random.permutation).
Permutations_of(s) ==
    LET n == Len(s)
        P == {f \in [1 .. n -> 1 .. n] : \A i, j \in 1 .. n : i # j => f[i] # f[j]}
    IN  {[i \in 1 .. n |-> s[f[i]]] : f \in P}

\* The ascending list of a finite set of integers (list(dict.keys()) of the
\* dictionaries built in user order).
RECURSIVE SortedSeq(_)
SortedSeq(S) ==
    IF S = {} THEN <<>>
    ELSE LET m == CHOOSE x \in S : \A y \in S : x <= y
         IN  <<m>> \o SortedSeq(S \ {m})

(***************************************************************************)
(* bpr_loss (lines 307-319) on a batch of n = users.shape[0] triples:      *)
(* torch.mean over n samples plus reg_lambda * (...) / n.  With n = 0 the  *)
(* mean of no samples is nan and the regulariser is 0/0 = nan; nothing is  *)
(* raised.  finite is the value the embeddings give a non-empty batch.     *)
(***************************************************************************)
TorchMean(n, finite) == IF n = 0 THEN NaN ELSE Finite(finite)
RegLoss(n) == IF n = 0 THEN NaN ELSE Finite(0)
bpr_loss(batch, finite) == FAdd(TorchMean(Len(batch), finite), RegLoss(Len(batch)))

(***************************************************************************)
(* The metrics (lines 368-382).  A float result is the exact fraction      *)
(* <<"f", n, d>>; a division by zero raises ZeroDivisionError.             *)
(***************************************************************************)
Div(n, d) == IF d = 0 THEN <<"ZeroDivisionError", 0, 0>> ELSE <<"f", n, d>>

SeqSet(s) == {s[i] : i \in 1 .. Len(s)}                  \* set(list)
Take(s, n) == SubSeq(s, 1, Min(n, Len(s)))               \* list[:n]

RECURSIVE SumTo(_, _)
\* sum(f[i] for i in 1 .. n)
SumTo(f, n) == IF n = 0 THEN 0 ELSE f[n] + SumTo(f, n - 1)

\* 1 / np.log2(i + 2) for the 0-based rank i, in millionths.
InvLog2 == <<1000000, 630930, 500000, 430677, 386853, 356207, 333333>>
Discount(i) == InvLog2[i + 1]

recall_at_k_ListLen(ranked, gt, kk) ==
    Div(Cardinality(SeqSet(Take(ranked, kk)) \cap SeqSet(gt)), Len(gt))

\* Line 369.
recall_at_k(ranked, gt, kk) ==
    Div(Cardinality(SeqSet(Take(ranked, kk)) \cap SeqSet(gt)), Cardinality(SeqSet(gt)))

\* Line 373.
precision_at_k(ranked, gt, kk) ==
    Div(Cardinality(SeqSet(Take(ranked, kk)) \cap SeqSet(gt)), kk)

\* Lines 377-380: the gain of the relevant items among the first k.
Dcg(ranked, gt, kk) ==
    LET top == Take(ranked, kk)
    IN  SumTo([i \in 1 .. Len(top) |->
                 IF top[i] \in SeqSet(gt) THEN Discount(i - 1) ELSE 0], Len(top))

\* Line 381: the ideal gain, over min(len(ground_truth), k) ranks; len is the
\* length of the list as given.
Idcg(gt, kk) ==
    SumTo([i \in 1 .. Min(Len(gt), kk) |-> Discount(i - 1)], Min(Len(gt), kk))

\* Line 382.
ndcg_at_k(ranked, gt, kk) ==
    IF Idcg(gt, kk) > 0 THEN Div(Dcg(ranked, gt, kk), Idcg(gt, kk)) ELSE <<"f", 0, 1>>

(***************************************************************************)
(* evaluate_model (lines 385-415), per user.  Embeddings have one          *)
(* dimension, so a dot product is a product.                               *)
(***************************************************************************)
\* user_item_dict.get(user, set()) of line 402.
DictGet(d, u) == IF u \in DOMAIN d THEN d[u] ELSE {}

\* The dictionary after user_item_dict[u]: it is a defaultdict(set) (line 127),
\* whose subscript stores an empty set under a key it does not have.
DefaultDict_getitem(d, u) == IF u \in DOMAIN d THEN d ELSE d @@ (u :> {})

DictAfterGet_Insert(d, u) == DefaultDict_getitem(d, u)

\* The dictionary after user_item_dict.get(user, set()) (line 402): get
\* stores nothing.
DictAfterGet(d, u) == d

\* The dictionary after sample_user_triplets has visited the users us: every
\* iteration subscripts the dictionary with its user (lines 449-452).
RECURSIVE DictAfterSampling(_, _)
DictAfterSampling(d, us) ==
    IF us = <<>> THEN d
    ELSE DictAfterSampling(DefaultDict_getitem(d, Head(us)), Tail(us))

\* The dictionary after evaluate_model has handled the users us (line 402).
RECURSIVE DictAfterEvaluate(_, _)
DictAfterEvaluate(d, us) ==
    IF us = <<>> THEN d
    ELSE DictAfterEvaluate(DictAfterGet(d, Head(us)), Tail(us))

CandidateSet_NoGroundTruth(n, train_items, gt_items) == (0 .. n - 1) \ train_items

\* Line 403, as a set.
CandidateSet(n, train_items, gt_items) ==
    ((0 .. n - 1) \ train_items) \cup SeqSet(gt_items)

\* Line 405: the score of every candidate for one user embedding.
CandidateScores(u_emb, i_emb, candidates) ==
    [c \in 1 .. Len(candidates) |-> u_emb * i_emb[candidates[c]]]

\* The index torch.topk takes next among the indices in left.
BestIndex(scores, left, ties) ==
    CHOOSE b \in left :
        \A o \in left \ {b} :
            \/ scores[b] > scores[o]
            \/ scores[b] = scores[o] /\ (IF ties = "low" THEN b < o ELSE b > o)

RECURSIVE TopKFrom(_, _, _, _)
TopKFrom(scores, left, kk, ties) ==
    IF kk = 0 THEN <<>>
    ELSE LET b == BestIndex(scores, left, ties)
         IN  <<b>> \o TopKFrom(scores, left \ {b}, kk - 1, ties)

TopKFails_AtLength(scores, kk) == kk >= Len(scores)

\* torch.topk(scores, k) (line 406) raises a RuntimeError when k exceeds the
\* number of scores.
TopKFails(scores, kk) == kk > Len(scores)

\* torch.topk(scores, k).indices: the indices of the k largest scores,
\* largest first.
TopK(scores, kk, ties) == TopKFrom(scores, 1 .. Len(scores), kk, ties)

\* Lines 401-410 for one user whose embedding is u_emb: the candidates, the
\* ranked items and the three metrics, or the error of torch.topk.
EvaluateUser(user, u_emb, i_emb, n, gts, dict, kk, ties) ==
    LET gt_items == gts[user]
        train_items == DictGet(dict, user)
        candidates == SortedSeq(CandidateSet(n, train_items, gt_items))
        scores == CandidateScores(u_emb, i_emb, candidates)
        top == TopK(scores, kk, ties)
    IN  IF TopKFails(scores, kk)
        THEN [ok |-> FALSE, user |-> user, candidates |-> candidates,
              ranked_items |-> <<>>, recall |-> <<>>, precision |-> <<>>, ndcg |-> <<>>]
        ELSE LET ranked_items == [r \in 1 .. Len(top) |-> candidates[top[r]]]
             IN  [ok |-> TRUE, user |-> user, candidates |-> candidates,
                  ranked_items |-> ranked_items,
                  recall |-> recall_at_k(ranked_items, gt_items, kk),
                  precision |-> precision_at_k(ranked_items, gt_items, kk),
                  ndcg |-> ndcg_at_k(ranked_items, gt_items, kk)]

BatchUserEmb_TableIndex(u_emb, batch_users, idx) == u_emb[idx - 1]

\* Lines 398 and 405: batch_user_emb = user_emb[batch_users], then
\* batch_user_emb[idx] for the idx-th user of the batch (idx from 1 here).
BatchUserEmb(u_emb, batch_users, idx) == [b \in 1 .. Len(batch_users) |-> u_emb[batch_users[b]]][idx]

RECURSIVE EvaluateBatch(_, _, _, _, _, _, _, _)
\* The inner loop of lines 400-410 over batch_users from position idx on:
\* the per-user results in order, ending at the first user whose top-k fails.
EvaluateBatch(batch_users, idx, u_emb, i_emb, n, gts, dict, kk) ==
    IF idx > Len(batch_users) THEN <<>>
    ELSE LET r == EvaluateUser(batch_users[idx], BatchUserEmb(u_emb, batch_users, idx),
                               i_emb, n, gts, dict, kk, topk_ties)
         IN  IF r.ok
             THEN <<r>> \o EvaluateBatch(batch_users, idx + 1, u_emb, i_emb, n, gts, dict, kk)
             ELSE <<r>>

\* np.mean of a list of fractions, as <<the list's fractions, its length>>:
\* equal lists have equal means.
NpMean(list) == <<list, Len(list)>>

(***************************************************************************)
(* LightGCN.build_adj_matrix (lines 207-225) for num_users = nu and        *)
(* num_nodes = nn.  A matrix is a function of (row, column).               *)
(***************************************************************************)
Rows(pairs) == [p \in 1 .. Len(pairs) |-> pairs[p][1]]                 \* line 211
Cols(pairs, nu) == [p \in 1 .. Len(pairs) |-> pairs[p][2] + nu]        \* line 212

ShapeError_RowsOnly(pairs, nu, nn) ==
    \E p \in 1 .. Len(pairs) : Rows(pairs)[p] >= nn

\* coo_matrix (line 214) raises a ValueError for an index outside the shape.
ShapeError(pairs, nu, nn) ==
    \E p \in 1 .. Len(pairs) : Rows(pairs)[p] >= nn \/ Cols(pairs, nu)[p] >= nn

\* Line 214: a 1.0 at (rows[p], cols[p]) for every p; entries at the same
\* place add up.
CooMatrix(pairs, nu, nn) ==
    [a \in 0 .. nn - 1, b \in 0 .. nn - 1 |->
        Cardinality({p \in 1 .. Len(pairs) :
                        Rows(pairs)[p] = a /\ Cols(pairs, nu)[p] = b})]

AdjSym_NoTranspose(r, nn) == [a \in 0 .. nn - 1, b \in 0 .. nn - 1 |-> r[a, b]]

\* Line 217: adj = R + R.T.
AdjSym(r, nn) == [a \in 0 .. nn - 1, b \in 0 .. nn - 1 |-> r[a, b] + r[b, a]]

\* Line 220: adj.sum(1).
RowSum(m, nn) ==
    [a \in 0 .. nn - 1 |-> SumTo([b \in 1 .. nn |-> m[a, b - 1]], nn)]

\* Lines 221-224: the entry (a, b) of d_mat_inv_sqrt @ adj @ d_mat_inv_sqrt is
\* ((rowsum[a] + 1e-8)^-0.5 * adj[a, b]) * (rowsum[b] + 1e-8)^-0.5, kept as the
\* triple <<rowsum[a], adj[a, b], rowsum[b]>>; <<>> where adj has no entry.
NormAdj(m, rs, nn) ==
    [a \in 0 .. nn - 1, b \in 0 .. nn - 1 |->
        IF m[a, b] = 0 THEN <<>> ELSE <<rs[a], m[a, b], rs[b]>>]

(***************************************************************************)
(* LightGCN.getEmbedding (lines 236-249) and LightGCN.forward (lines       *)
(* 272-289).  A dense tensor is a sequence of rows, row n of the program   *)
(* at position n + 1; an embedding has one component.  The sparse tensor   *)
(* norm_adj is its list of entries <<row, column, value>>.                 *)
(***************************************************************************)
\* torch.sparse.mm(adj, emb) (lines 242, 281): row a of the product adds up
\* value * emb[column] over the entries of row a.
SparseMM(a_coo, emb) ==
    [a \in 1 .. Len(emb) |->
        SumTo([e \in 1 .. Len(a_coo) |->
                  IF a_coo[e][1] = a - 1 THEN a_coo[e][3] * emb[a_coo[e][2] + 1] ELSE 0],
              Len(a_coo))]

\* The loop of lines 241-243 and of lines 280-282: the list of the layer
\* embeddings, layer 0 first, after n more layers.
RECURSIVE Propagate(_, _, _)
Propagate(a_coo, emb, n) ==
    IF n = 0 THEN <<emb>>
    ELSE <<emb>> \o Propagate(a_coo, SparseMM(a_coo, emb), n - 1)

\* torch.stack(embs, dim=1) (line 245): the tensor t with t[n][l] = embs[l][n].
StackDim1(embs) ==
    [n \in 1 .. Len(embs[1]) |-> [l \in 1 .. Len(embs) |-> embs[l][n]]]

\* torch.mean(embs, dim=1) (line 246): per row, the sum over the layers and
\* the number of layers it is divided by.
MeanDim1(t) == [n \in 1 .. Len(t) |-> <<SumTo(t[n], Len(t[n])), Len(t[n])>>]

\* torch.stack(all_embs, dim=0) (line 285): the tensor t with t[l][n] = embs[l][n].
StackDim0(embs) == [l \in 1 .. Len(embs) |-> embs[l]]

MeanDim0_LastLayer(t) == [n \in 1 .. Len(t[1]) |-> <<t[Len(t)][n], 1>>]

\* .mean(0) (line 285).
MeanDim0(t) ==
    [n \in 1 .. Len(t[1]) |-> <<SumTo([l \in 1 .. Len(t) |-> t[l][n]], Len(t)), Len(t)>>]

\* Lines 237-249.
getEmbedding(user_w, item_w, a_coo, layers, nu) ==
    LET all_emb == user_w \o item_w
        embs == Propagate(a_coo, all_emb, layers)
        light_out == MeanDim1(StackDim1(embs))
    IN  <<SubSeq(light_out, 1, nu), SubSeq(light_out, nu + 1, Len(light_out))>>

\* Lines 274-289.
forward(user_w, item_w, a_coo, layers, nu) ==
    LET emb == user_w \o item_w
        all_embs == Propagate(a_coo, emb, layers)
        final_emb == MeanDim0(StackDim0(all_embs))
    IN  <<SubSeq(final_emb, 1, nu), SubSeq(final_emb, nu + 1, Len(final_emb))>>

\* The other parts, when a specification does not run them.
ESIdle ==
    /\ EarlyStopping_init(0, 0)
    /\ n_calls = 0
    /\ fired_at = <<>>
    /\ observed = <<>>
    /\ accepted = <<>>

TrIdle ==
    /\ pc_tr = "idle"
    /\ epochs = 0
    /\ epoch = 0
    /\ recall = 0
    /\ trained = 0
    /\ evaluated = 0
    /\ ret_tr = <<>>

EpIdle ==
    /\ pc_ep = "idle"
    /\ user_item_dict = <<>>
    /\ all_items = {}
    /\ batch_size = 0
    /\ users = <<>>
    /\ u_i = 0
    /\ samples = <<>>
    /\ tensors = <<>>
    /\ total_loss = Finite(0)
    /\ num_batches = 0
    /\ start = 0
    /\ ret = <<>>
    /\ opt_steps = 0
    /\ loss_out = <<>>

MIdle ==
    /\ pc_m = "idle"
    /\ ranked_list = <<>>
    /\ ground_truth = <<>>
    /\ k = 0
    /\ metrics = <<>>

EvIdle ==
    /\ pc_ev = "idle"
    /\ num_items = 0
    /\ user_emb = <<>>
    /\ item_emb = <<>>
    /\ test_ground_truth = <<>>
    /\ test_users = <<>>
    /\ i_ev = 0
    /\ recall_list = <<>>
    /\ precision_list = <<>>
    /\ ndcg_list = <<>>
    /\ ret_ev = <<>>
    /\ topk_ties = "low"
    /\ eval_log = <<>>

AdjIdle ==
    /\ pc_adj = "idle"
    /\ num_users = 0
    /\ user_item_pairs = <<>>
    /\ R = <<>>
    /\ adj = <<>>
    /\ rowsum = <<>>
    /\ norm_adj = <<>>
    /\ model = <<>>

RunIdle ==
    /\ pc_run = "idle"
    /\ interactions = <<>>
    /\ n_train = 0
    /\ n_eval = 0

PropIdle ==
    /\ user_embedding = <<>>
    /\ item_embedding = <<>>
    /\ num_layers = 0
    /\ out_get = <<>>
    /\ out_fwd = <<>>
    /\ stepped = FALSE

(***************************************************************************)
(* SpecES: a controller fed any sequence of scores.                        *)
(***************************************************************************)
ESInit ==
    /\ \E p \in 1 .. MaxPatience, d \in 0 .. MaxDelta : EarlyStopping_init(p, d)
    /\ n_calls = 0
    /\ fired_at = <<>>
    /\ observed = <<>>
    /\ accepted = <<>>
    /\ TrIdle
    /\ EpIdle
    /\ MIdle
    /\ EvIdle
    /\ AdjIdle
    /\ RunIdle
    /\ PropIdle

Observe ==
    /\ n_calls < MaxCalls
    /\ \E s \in Scores : EarlyStopping_call(s)
    /\ UNCHANGED <<trVars, epVars, mVars, evVars, adjVars, runVars, propVars>>

ESNext == Observe

SpecES == ESInit /\ [][ESNext]_vars

(***************************************************************************)
(* SpecTrain: train_lightgcn (lines 505-537).  The body of an epoch is     *)
(* modelled by SpecEpoch and the evaluation by SpecEval; here an epoch's   *)
(* training is one step and its recall is any score the evaluator may      *)
(* return.                                                                 *)
(***************************************************************************)
TrainInit ==
    /\ \E p \in 1 .. MaxPatience : EarlyStopping_init(p, 0)   \* line 516: delta defaults to 0.0
    /\ n_calls = 0
    /\ fired_at = <<>>
    /\ observed = <<>>
    /\ accepted = <<>>
    /\ pc_tr = "train"
    /\ epochs \in 1 .. MaxEpochs
    /\ epoch = 0
    /\ recall = 0
    /\ trained = 0
    /\ evaluated = 0
    /\ ret_tr = <<>>
    /\ EpIdle
    /\ MIdle
    /\ EvIdle
    /\ AdjIdle
    /\ RunIdle
    /\ PropIdle

\* Line 521: train_one_epoch.
TrainEpoch ==
    /\ pc_tr = "train"
    /\ trained' = trained + 1
    /\ pc_tr' = "evaluate"
    /\ UNCHANGED <<epochs, epoch, recall, evaluated, ret_tr>>
    /\ UNCHANGED <<esVars, epVars, mVars, evVars, adjVars, runVars, propVars>>

\* Lines 526-530: evaluate_model at the fixed k.
Evaluate ==
    /\ pc_tr = "evaluate"
    /\ \E r \in Scores : recall' = r
    /\ evaluated' = evaluated + 1
    /\ pc_tr' = "observe"
    /\ UNCHANGED <<epochs, epoch, trained, ret_tr>>
    /\ UNCHANGED <<esVars, epVars, mVars, evVars, adjVars, runVars, propVars>>

\* Lines 533-537 and the loop header of line 519: the controller observes
\* the recall, the loop breaks on its flag and ends after `epochs` epochs.
\* The function has no return statement: when the loop ends the caller gets
\* None, and early_stopping, a local of line 516, is gone with the frame.
CheckEarlyStopping ==
    /\ pc_tr = "observe"
    /\ EarlyStopping_call(recall)
    /\ epoch' = epoch + 1
    /\ pc_tr' = IF early_stop' \/ epoch' = epochs THEN "done" ELSE "train"
    /\ ret_tr' = <<>>
    /\ UNCHANGED <<epochs, recall, trained, evaluated>>
    /\ UNCHANGED <<epVars, mVars, evVars, adjVars, runVars, propVars>>

\* A KeyboardInterrupt between two epochs (the notebook's own run, line 652,
\* ended by one): no statement of lines 505-537 catches it, so it unwinds
\* the frame and reaches the caller, which gets no value.
Interrupt ==
    /\ pc_tr = "train"
    /\ epoch > 0
    /\ pc_tr' = "KeyboardInterrupt"
    /\ ret_tr' = <<>>
    /\ UNCHANGED <<epochs, epoch, recall, trained, evaluated>>
    /\ UNCHANGED <<esVars, epVars, mVars, evVars, adjVars, runVars, propVars>>

TrainNext == TrainEpoch \/ Evaluate \/ CheckEarlyStopping \/ Interrupt

SpecTrain == TrainInit /\ [][TrainNext]_vars

(***************************************************************************)
(* SpecEpoch: one call of train_one_epoch (lines 467-495) on any           *)
(* interaction dictionary, or one direct call of bpr_loss on any batch.    *)
(***************************************************************************)
EpUsers == 0 .. NumUsersEp - 1
EpItems == 0 .. NumItemsEp - 1
Triples == EpUsers \X EpItems \X EpItems
DirectBatches == UNION {[1 .. n -> Triples] : n \in 0 .. MaxDirectBatch}

EpochInit ==
    /\ pc_ep = "start"
    /\ user_item_dict \in [EpUsers -> SUBSET EpItems]
    /\ all_items = EpItems                       \* line 515: set(range(model.num_items))
    /\ batch_size \in 1 .. MaxBatchSize
    /\ users = <<>>
    /\ u_i = 0
    /\ samples = <<>>
    /\ tensors = <<>>
    /\ total_loss = Finite(0)
    /\ num_batches = 0
    /\ start = 0
    /\ ret = <<>>
    /\ opt_steps = 0
    /\ loss_out = <<>>
    /\ ESIdle
    /\ TrIdle
    /\ MIdle
    /\ EvIdle
    /\ AdjIdle
    /\ RunIdle
    /\ PropIdle

\* Lines 469-471 up to the call: the user list, shuffled; sample_user_triplets
\* starts with no samples (line 447).
ShuffleUsers ==
    /\ pc_ep = "start"
    /\ users' \in Permutations_of(SortedSeq(DOMAIN user_item_dict))
    /\ samples' = <<>>
    /\ u_i' = 1
    /\ pc_ep' = "sample"
    /\ UNCHANGED <<user_item_dict, all_items, batch_size, tensors, total_loss,
                   num_batches, start, ret, opt_steps, loss_out>>

NegPool_NoExclusion(u) == all_items

NegPool(u) == all_items \ user_item_dict[u]      \* line 452

\* One iteration of the loop of sample_user_triplets (lines 448-456) for
\* the user u = users[u_i].
SampleLoopFrame ==
    /\ pc_ep = "sample"
    /\ u_i <= Len(users)
    /\ u_i' = u_i + 1
    /\ user_item_dict' = DictAfterSampling(user_item_dict, <<users[u_i]>>)
    /\ UNCHANGED <<pc_ep, all_items, batch_size, users, tensors,
                   total_loss, num_batches, start, ret, opt_steps, loss_out>>

\* Lines 449-450.
SkipNoInteractions ==
    /\ SampleLoopFrame
    /\ user_item_dict[users[u_i]] = {}
    /\ samples' = samples

\* Lines 453-454.
SkipNoNegative ==
    /\ SampleLoopFrame
    /\ user_item_dict[users[u_i]] # {}
    /\ NegPool(users[u_i]) = {}
    /\ samples' = samples

\* Lines 451, 455, 456.
AppendTriple ==
    /\ SampleLoopFrame
    /\ user_item_dict[users[u_i]] # {}
    /\ NegPool(users[u_i]) # {}
    /\ \E pos \in user_item_dict[users[u_i]], neg \in NegPool(users[u_i]) :
          samples' = Append(samples, <<users[u_i], pos, neg>>)

\* Line 480.
NumBatches(n, bs) == (n \div bs) + 1

\* Lines 473-480: the tensors, shuffled together; the loss accumulator and
\* the batch count.
ShuffleSamples ==
    /\ pc_ep = "sample"
    /\ u_i > Len(users)
    /\ tensors' \in Permutations_of(samples)
    /\ total_loss' = Finite(0)
    /\ num_batches' = NumBatches(Len(samples), batch_size)
    /\ start' = 0
    /\ pc_ep' = "batch"
    /\ UNCHANGED <<user_item_dict, all_items, batch_size, users, u_i, samples, ret,
                   opt_steps, loss_out>>

\* The slice tensor[start:end] of lines 483-486.
Slice(t, from, to) == SubSeq(t, from + 1, Min(to, Len(t)))

\* One iteration of the loop of lines 482-493.
TrainBatch ==
    /\ pc_ep = "batch"
    /\ start < Len(tensors)
    /\ \E finite \in LossValues :
          total_loss' = FAdd(total_loss,
                             bpr_loss(Slice(tensors, start, start + batch_size), finite))
    /\ opt_steps' = opt_steps + 1
    /\ start' = start + batch_size
    /\ UNCHANGED <<pc_ep, user_item_dict, all_items, batch_size, users, u_i, samples,
                   tensors, num_batches, ret, loss_out>>

\* Line 495: total_loss / num_batches, as the fraction <<total_loss, num_batches>>.
ReturnLoss ==
    /\ pc_ep = "batch"
    /\ start >= Len(tensors)
    /\ ret' = <<total_loss, num_batches>>
    /\ pc_ep' = "done"
    /\ UNCHANGED <<user_item_dict, all_items, batch_size, users, u_i, samples, tensors,
                   total_loss, num_batches, start, opt_steps, loss_out>>

\* bpr_loss called on a batch of the caller's choice.
CallBprLoss ==
    /\ pc_ep = "start"
    /\ \E batch \in DirectBatches, finite \in LossValues :
          loss_out' = <<batch, bpr_loss(batch, finite)>>
    /\ pc_ep' = "called"
    /\ UNCHANGED <<user_item_dict, all_items, batch_size, users, u_i, samples, tensors,
                   total_loss, num_batches, start, ret, opt_steps>>

EpochNext ==
    \/ (ShuffleUsers /\ UNCHANGED <<esVars, trVars, mVars, evVars, adjVars, runVars, propVars>>)
    \/ (SkipNoInteractions /\ UNCHANGED <<esVars, trVars, mVars, evVars, adjVars, runVars, propVars>>)
    \/ (SkipNoNegative /\ UNCHANGED <<esVars, trVars, mVars, evVars, adjVars, runVars, propVars>>)
    \/ (AppendTriple /\ UNCHANGED <<esVars, trVars, mVars, evVars, adjVars, runVars, propVars>>)
    \/ (ShuffleSamples /\ UNCHANGED <<esVars, trVars, mVars, evVars, adjVars, runVars, propVars>>)
    \/ (TrainBatch /\ UNCHANGED <<esVars, trVars, mVars, evVars, adjVars, runVars, propVars>>)
    \/ (ReturnLoss /\ UNCHANGED <<esVars, trVars, mVars, evVars, adjVars, runVars, propVars>>)
    \/ (CallBprLoss /\ UNCHANGED <<esVars, trVars, mVars, evVars, adjVars, runVars, propVars>>)

SpecEpoch == EpochInit /\ [][EpochNext]_vars

(***************************************************************************)
(* SpecMetrics: the three metrics applied to any ranked list of distinct   *)
(* items, any ground-truth list (as read from a line: it may repeat an     *)
(* item) and any k >= 1.                                                   *)
(***************************************************************************)
MItems == 0 .. NumItemsM - 1
Lists(S, n) == UNION {[1 .. m -> S] : m \in 0 .. n}
Distinct(s) == \A i, j \in 1 .. Len(s) : i # j => s[i] # s[j]

MetricsInit ==
    /\ pc_m = "start"
    /\ ranked_list \in {s \in Lists(MItems, MaxRanked) : Distinct(s)}
    /\ ground_truth \in Lists(MItems, MaxGtLen)
    /\ k \in 1 .. MaxK
    /\ metrics = <<>>
    /\ ESIdle
    /\ TrIdle
    /\ EpIdle
    /\ EvIdle
    /\ AdjIdle
    /\ RunIdle
    /\ PropIdle

\* Lines 408-410: the three metrics of one ranked list.
ComputeMetrics ==
    /\ pc_m = "start"
    /\ metrics' = [recall |-> recall_at_k(ranked_list, ground_truth, k),
                   precision |-> precision_at_k(ranked_list, ground_truth, k),
                   ndcg |-> ndcg_at_k(ranked_list, ground_truth, k)]
    /\ pc_m' = "done"
    /\ UNCHANGED <<ranked_list, ground_truth, k>>
    /\ UNCHANGED <<esVars, trVars, epVars, evVars, adjVars, runVars, propVars>>

MetricsNext == ComputeMetrics

SpecMetrics == MetricsInit /\ [][MetricsNext]_vars

(***************************************************************************)
(* SpecEval: one call of evaluate_model (lines 385-415) on any embeddings, *)
(* held-out lists, interaction sets, k and batch_size.                     *)
(***************************************************************************)
EvUsers == 0 .. NumUsersEv - 1
EvItems == 0 .. NumItemsEv - 1
EmbValues == {-1, 1}
GtLists == Lists(EvItems, MaxGtLenEv) \ {<<>>}     \* lines 140-143: at least one item

\* The dictionaries the loader (lines 127-131) and the rebuild (lines 511-513)
\* make: a key for every user with at least one item, and for no other.
TrainDicts(U, I) == UNION {[D -> (SUBSET I) \ {{}}] : D \in SUBSET U}

\* The parts of the epoch's variables that evaluate_model does not read.
EpRestIdle ==
    /\ pc_ep = "idle"
    /\ all_items = {}
    /\ users = <<>>
    /\ u_i = 0
    /\ samples = <<>>
    /\ tensors = <<>>
    /\ total_loss = Finite(0)
    /\ num_batches = 0
    /\ start = 0
    /\ ret = <<>>
    /\ opt_steps = 0
    /\ loss_out = <<>>

EvalInit ==
    /\ pc_ev = "start"
    /\ num_items = NumItemsEv
    /\ user_emb \in [EvUsers -> EmbValues]
    /\ item_emb \in [EvItems -> EmbValues]
    /\ test_ground_truth \in [EvUsers -> GtLists]
    /\ user_item_dict \in TrainDicts(EvUsers, EvItems)
    /\ k \in 1 .. MaxKEv
    /\ batch_size \in 1 .. MaxBatchSizeEv
    /\ topk_ties \in {"low", "high"}
    /\ test_users = <<>>
    /\ i_ev = 0
    /\ recall_list = <<>>
    /\ precision_list = <<>>
    /\ ndcg_list = <<>>
    /\ ret_ev = <<>>
    /\ eval_log = <<>>
    /\ pc_m = "idle" /\ ranked_list = <<>> /\ ground_truth = <<>> /\ metrics = <<>>
    /\ EpRestIdle
    /\ ESIdle
    /\ TrIdle
    /\ AdjIdle
    /\ RunIdle
    /\ PropIdle

evFrame == <<esVars, trVars, epRestVars, adjVars, runVars, propVars, pc_m, ranked_list, ground_truth, k, metrics,
             num_items, user_emb, item_emb, test_ground_truth, topk_ties>>

\* Lines 386-394: the embeddings of model(), the empty lists, the test users.
EvalStart ==
    /\ pc_ev = "start"
    /\ recall_list' = <<>>
    /\ precision_list' = <<>>
    /\ ndcg_list' = <<>>
    /\ test_users' = SortedSeq(DOMAIN test_ground_truth)
    /\ i_ev' = 0
    /\ pc_ev' = "loop"
    /\ UNCHANGED <<ret_ev, eval_log, user_item_dict>>
    /\ UNCHANGED evFrame

\* One iteration of the loop of line 396: the batch test_users[i:i+batch_size]
\* and the inner loop over its users; the error of torch.topk ends the call.
EvalBatch ==
    /\ pc_ev = "loop"
    /\ i_ev < Len(test_users)
    /\ LET batch_users == Slice(test_users, i_ev, i_ev + batch_size)
           rs == EvaluateBatch(batch_users, 1, user_emb, item_emb, num_items,
                               test_ground_truth, user_item_dict, k)
           done == SelectSeq(rs, LAMBDA r : r.ok)
       IN  /\ recall_list' = recall_list \o [j \in 1 .. Len(done) |-> done[j].recall]
           /\ precision_list' = precision_list \o [j \in 1 .. Len(done) |-> done[j].precision]
           /\ ndcg_list' = ndcg_list \o [j \in 1 .. Len(done) |-> done[j].ndcg]
           /\ eval_log' = eval_log \o rs
           /\ pc_ev' = IF Len(done) = Len(rs) THEN "loop" ELSE "error"
           /\ user_item_dict' =
                  DictAfterEvaluate(user_item_dict, [j \in 1 .. Len(rs) |-> rs[j].user])
    /\ i_ev' = i_ev + batch_size
    /\ UNCHANGED <<test_users, ret_ev>>
    /\ UNCHANGED evFrame

\* Line 415.
EvalReturn ==
    /\ pc_ev = "loop"
    /\ i_ev >= Len(test_users)
    /\ ret_ev' = <<NpMean(recall_list), NpMean(precision_list), NpMean(ndcg_list)>>
    /\ pc_ev' = "done"
    /\ UNCHANGED <<test_users, i_ev, recall_list, precision_list, ndcg_list, eval_log,
                   user_item_dict>>
    /\ UNCHANGED evFrame

EvalNext == EvalStart \/ EvalBatch \/ EvalReturn

SpecEval == EvalInit /\ [][EvalNext]_vars

(***************************************************************************)
(* SpecAdj: LightGCN.build_adj_matrix (lines 207-225) on any list of       *)
(* (user, item) pairs.  A user id may be any node index or one past the    *)
(* last, an item id any item index or one past the last.                   *)
(***************************************************************************)
PairLists == Lists((0 .. NumUsersAdj + NumItemsAdj) \X (0 .. NumItemsAdj), MaxPairs)

\* The parts of the evaluator's variables that the graph build does not read.
EvRestIdle ==
    /\ pc_ev = "idle"
    /\ user_emb = <<>>
    /\ item_emb = <<>>
    /\ test_ground_truth = <<>>
    /\ test_users = <<>>
    /\ i_ev = 0
    /\ recall_list = <<>>
    /\ precision_list = <<>>
    /\ ndcg_list = <<>>
    /\ ret_ev = <<>>
    /\ topk_ties = "low"
    /\ eval_log = <<>>

AdjInit ==
    /\ pc_adj = "start"
    /\ num_users = NumUsersAdj                   \* lines 190-191
    /\ num_items = NumItemsAdj
    /\ user_item_pairs \in PairLists
    /\ R = <<>>
    /\ adj = <<>>
    /\ rowsum = <<>>
    /\ norm_adj = <<>>
    /\ model = <<>>
    /\ EvRestIdle
    /\ ESIdle
    /\ TrIdle
    /\ EpIdle
    /\ MIdle
    /\ RunIdle
    /\ PropIdle

adjFrame == <<esVars, trVars, epVars, mVars, evVars, runVars, propVars, num_users,
              user_item_pairs>>

\* LightGCN(...) of line 653 when every index fits the shape: lines 208-225
\* build the matrix, line 204 stores it and the caller binds the new object.
BuildAdjMatrix ==
    /\ pc_adj = "start"
    /\ ~ShapeError(user_item_pairs, num_users, num_users + num_items)
    /\ LET nn == num_users + num_items
           r == CooMatrix(user_item_pairs, num_users, nn)
           a == AdjSym(r, nn)
           rs == RowSum(a, nn)
       IN  /\ R' = r
           /\ adj' = a
           /\ rowsum' = rs
           /\ norm_adj' = NormAdj(a, rs, nn)
    /\ model' = <<[num_users |-> num_users, num_items |-> num_items,
                   norm_adj |-> norm_adj']>>
    /\ pc_adj' = "built"
    /\ UNCHANGED adjFrame

\* Lines 208-214 when coo_matrix rejects an index: nothing is built, and as
\* neither build_adj_matrix nor __init__ catches the ValueError, line 653
\* raises it and binds nothing.
BuildAdjMatrixFails ==
    /\ pc_adj = "start"
    /\ ShapeError(user_item_pairs, num_users, num_users + num_items)
    /\ pc_adj' = "ValueError"
    /\ UNCHANGED <<R, adj, rowsum, norm_adj, model>>
    /\ UNCHANGED adjFrame

AdjNext == BuildAdjMatrix \/ BuildAdjMatrixFails

SpecAdj == AdjInit /\ [][AdjNext]_vars

(***************************************************************************)
(* SpecRun: what the notebook does with the interaction dictionary.  The   *)
(* loader (lines 126-155) makes the dictionary and the interaction list    *)
(* from train.txt and the held-out lists from test.txt; train_lightgcn     *)
(* rebuilds the dictionary (lines 511-513); then train_one_epoch and       *)
(* evaluate_model are called on it, in any order.  The steps inside the    *)
(* two calls are those of SpecEpoch and SpecEval; here a call is one step  *)
(* with its effect on the dictionary.                                      *)
(***************************************************************************)
RunUsers == 0 .. NumUsersRun - 1
RunItems == 0 .. NumItemsRun - 1

\* Lines 146-150: the (user, item) pairs of the dictionary, user by user.
RECURSIVE PairsFrom(_, _)
PairsFrom(d, us) ==
    IF us = <<>> THEN <<>>
    ELSE LET its == SortedSeq(d[Head(us)])
         IN  [j \in 1 .. Len(its) |-> <<Head(us), its[j]>>] \o PairsFrom(d, Tail(us))

\* Lines 512-513: user_item_dict[u].add(i) for every pair.
RECURSIVE AddAll(_, _)
AddAll(d, pairs) ==
    IF pairs = <<>> THEN d
    ELSE LET u == Head(pairs)[1]
             d1 == DefaultDict_getitem(d, u)
         IN  AddAll([d1 EXCEPT ![u] = @ \cup {Head(pairs)[2]}], Tail(pairs))

RunInit ==
    /\ pc_run = "rebuild"
    /\ user_item_dict \in TrainDicts(RunUsers, RunItems)
    /\ interactions = PairsFrom(user_item_dict, SortedSeq(DOMAIN user_item_dict))
    /\ test_ground_truth \in
          UNION {[D -> {<<it>> : it \in RunItems}] : D \in SUBSET RunUsers}
    /\ n_train = 0
    /\ n_eval = 0
    /\ batch_size = 0
    /\ EpRestIdle
    /\ pc_ev = "idle" /\ num_items = 0 /\ user_emb = <<>> /\ item_emb = <<>>
    /\ test_users = <<>> /\ i_ev = 0 /\ recall_list = <<>> /\ precision_list = <<>>
    /\ ndcg_list = <<>> /\ ret_ev = <<>> /\ topk_ties = "low" /\ eval_log = <<>>
    /\ ESIdle
    /\ TrIdle
    /\ MIdle
    /\ AdjIdle
    /\ PropIdle

runFrame == <<esVars, trVars, epRestVars, mVars, adjVars, propVars, interactions,
              pc_ev, num_items, user_emb, item_emb, test_ground_truth, test_users, i_ev,
              recall_list, precision_list, ndcg_list, ret_ev, topk_ties, eval_log>>

\* Lines 511-513: clear the dictionary and fill it from the interactions.
Rebuild ==
    /\ pc_run = "rebuild"
    /\ user_item_dict' = AddAll(<<>>, interactions)
    /\ pc_run' = "ready"
    /\ UNCHANGED <<n_train, n_eval>>
    /\ UNCHANGED runFrame

\* A call of train_one_epoch (lines 521, 469-471): the sampler visits
\* list(user_item_dict.keys()).
CallTrainOneEpoch ==
    /\ pc_run = "ready"
    /\ n_train < MaxRunCalls
    /\ user_item_dict' =
          DictAfterSampling(user_item_dict, SortedSeq(DOMAIN user_item_dict))
    /\ n_train' = n_train + 1
    /\ UNCHANGED <<pc_run, n_eval>>
    /\ UNCHANGED runFrame

\* A call of evaluate_model (lines 527, 672): it handles the ground-truth
\* users in order, all of them or, when a top-k fails, those up to that one.
CallEvaluateModel ==
    /\ pc_run = "ready"
    /\ n_eval < MaxRunCalls
    /\ LET tu == SortedSeq(DOMAIN test_ground_truth)
       IN  \E n \in 0 .. Len(tu) :
              /\ n = Len(tu) \/ n >= 1
              /\ user_item_dict' = DictAfterEvaluate(user_item_dict, SubSeq(tu, 1, n))
    /\ n_eval' = n_eval + 1
    /\ UNCHANGED <<pc_run, n_train>>
    /\ UNCHANGED runFrame

RunNext == Rebuild \/ CallTrainOneEpoch \/ CallEvaluateModel

SpecRun == RunInit /\ [][RunNext]_vars

(***************************************************************************)
(* SpecProp: a constructed model with any weight tables, any sparse        *)
(* norm_adj over its nodes and any num_layers; getEmbedding (called by the *)
(* loss) and forward (called by the evaluator) are called on it, and the   *)
(* optimizer changes the tables.  The entries of norm_adj, floats in the   *)
(* program, are 1 here; entries at the same place add up in the product.   *)
(***************************************************************************)
PropNodes == 0 .. NumUsersProp + NumItemsProp - 1
CooLists == Lists(PropNodes \X PropNodes \X {1}, MaxNnz)

PropInit ==
    /\ num_users = NumUsersProp                       \* lines 190-193
    /\ num_items = NumItemsProp
    /\ num_layers \in 0 .. MaxLayers
    /\ user_embedding \in [1 .. NumUsersProp -> EmbValues]     \* lines 196-201
    /\ item_embedding \in [1 .. NumItemsProp -> EmbValues]
    /\ norm_adj \in CooLists                          \* line 204
    /\ model = <<[num_users |-> num_users, num_items |-> num_items,
                  norm_adj |-> norm_adj]>>
    /\ pc_adj = "idle" /\ user_item_pairs = <<>> /\ R = <<>> /\ adj = <<>> /\ rowsum = <<>>
    /\ out_get = <<>>
    /\ out_fwd = <<>>
    /\ stepped = FALSE
    /\ EvRestIdle
    /\ ESIdle
    /\ TrIdle
    /\ EpIdle
    /\ MIdle
    /\ RunIdle

propFrame == <<esVars, trVars, epVars, mVars, evVars, adjVars, runVars, num_layers>>

\* A call of getEmbedding (lines 253, 260): nothing but the returned pair changes.
GetEmbedding ==
    /\ out_get' = <<getEmbedding(user_embedding, item_embedding, norm_adj,
                                 num_layers, num_users)>>
    /\ UNCHANGED <<user_embedding, item_embedding, out_fwd, stepped>>
    /\ UNCHANGED propFrame

\* A call of forward (line 389: model()).
Forward ==
    /\ out_fwd' = <<forward(user_embedding, item_embedding, norm_adj,
                            num_layers, num_users)>>
    /\ UNCHANGED <<user_embedding, item_embedding, out_get, stepped>>
    /\ UNCHANGED propFrame

\* optimizer.step() (line 492), after the loss of line 488 has called
\* getEmbedding: the two weight tables get new values.  The pairs returned
\* before are locals of bpr_loss and of evaluate_model and are gone by then.
OptimizerStep ==
    /\ out_get # <<>>
    /\ user_embedding' \in [1 .. NumUsersProp -> EmbValues]
    /\ item_embedding' \in [1 .. NumItemsProp -> EmbValues]
    /\ stepped' = TRUE
    /\ out_get' = <<>>
    /\ out_fwd' = <<>>
    /\ UNCHANGED propFrame

PropNext == GetEmbedding \/ Forward \/ OptimizerStep

SpecProp == PropInit /\ [][PropNext]_vars

(***************************************************************************)
(* The claims.                                                             *)
(***************************************************************************)

\* C1 (as claimed): with delta = 0 the controller's stop signal is set exactly
\* when the strike counter has reached patience at some observation: set at
\* the first such observation and not before.
C1_StopSignalAtPatience ==
    delta = 0 => (early_stop <=> fired_at # <<>>)

\* C2 (as claimed): an epoch is train_one_epoch, then evaluate_model, then one
\* controller observation, in that order; no epoch is trained after the
\* observation at which the strike counter reached patience; the run ends
\* at that observation, or else after exactly `epochs` epochs.
C2_RunStopsOnSignal ==
    /\ evaluated <= trained /\ trained <= evaluated + 1
    /\ n_calls <= evaluated /\ evaluated <= n_calls + 1
    /\ (pc_tr = "train" \/ pc_tr = "done") => (trained = evaluated /\ evaluated = n_calls)
    /\ fired_at # <<>> => trained <= fired_at[1]
    /\ pc_tr = "done" => trained = (IF fired_at # <<>> THEN fired_at[1] ELSE epochs)

CeilDiv(n, d) == (n + d - 1) \div d

\* C3 (as claimed): for N >= 1 samples, train_one_epoch divides the accumulated
\* loss by ceil(N / batch_size), the number of batches the loop processed (one
\* optimizer step each).
C3_DivisorIsBatchCount ==
    (pc_ep = "done" /\ Len(samples) >= 1) =>
        /\ ret[2] = CeilDiv(Len(samples), batch_size)
        /\ ret[2] = opt_steps

\* C4 (as claimed): bpr_loss on a zero-length batch fails with an explicit
\* empty-batch error, and an epoch whose sampler returned no triples reports
\* no loss value.
C4_EmptyBatchFails ==
    /\ (pc_ep = "called" /\ Len(loss_out[1]) = 0) => loss_out[2][1] = "EmptyBatchError"
    /\ (pc_ep = "done" /\ samples = <<>>) => ret[1][1] # "f"

TriplesOf(u) == {t \in 1 .. Len(samples) : samples[t][1] = u}

\* C5: sample_user_triplets returns at most one triple per user; every triple
\* (u, pos, neg) has pos in u's interaction set and neg in all_items minus that
\* set; a user whose set is empty or is the whole item universe contributes no
\* triple and every other user exactly one; a skip does not end the loop: every
\* listed user has been visited when the loop ends.
C5_SamplerSound ==
    pc_ep \in {"sample", "batch", "done"} =>
        /\ \A t \in 1 .. Len(samples) :
              /\ samples[t][2] \in user_item_dict[samples[t][1]]
              /\ samples[t][3] \in all_items \ user_item_dict[samples[t][1]]
        /\ \A j \in 1 .. Len(users) :
              Cardinality(TriplesOf(users[j])) =
                  IF j < u_i /\ user_item_dict[users[j]] # {}
                             /\ user_item_dict[users[j]] # all_items
                  THEN 1 ELSE 0
        /\ pc_ep \in {"batch", "done"} => u_i = Len(users) + 1

\* C5's case: the first user visited has every item and is skipped, and the
\* loop went on to give the next user its triple.
C5_Witness ==
    /\ pc_ep = "batch"
    /\ user_item_dict[users[1]] = all_items
    /\ Len(samples) = 1
    /\ samples[1][1] = users[2]

\* A fraction <<"f", n, d>> in [0, 1], and one equal to 1.0.
InUnit(x) == x[1] = "f" /\ 0 <= x[2] /\ x[2] <= x[3] /\ x[3] > 0
IsOne(x) == x[1] = "f" /\ x[2] = x[3] /\ x[3] > 0
IsZero(x) == x[1] = "f" /\ x[2] = 0 /\ x[3] > 0

\* C7: for a ranked list of distinct items, a non-empty ground truth G and
\* k >= 1, recall_at_k and precision_at_k are in [0, 1], and recall_at_k is
\* 1.0 exactly when the first k ranked items contain every item of G.
C7_RecallPrecisionRange ==
    (pc_m = "done" /\ ground_truth # <<>>) =>
        /\ InUnit(metrics.recall)
        /\ InUnit(metrics.precision)
        /\ IsOne(metrics.recall) <=>
               SeqSet(ground_truth) \subseteq SeqSet(Take(ranked_list, k))

\* C7's cases: a ground truth that repeats an item and is covered by the first
\* k of a longer ranked list that also ranks an irrelevant item.
C7_Witness ==
    /\ pc_m = "done"
    /\ Len(ground_truth) > Cardinality(SeqSet(ground_truth))
    /\ IsOne(metrics.recall)
    /\ Len(ranked_list) > k
    /\ metrics.precision[2] < k

\* The ranked list places all distinct items of G, up to k of them, first.
PerfectRanking(ranked, gt, kk) ==
    LET m == Min(Cardinality(SeqSet(gt)), kk)
    IN  /\ Len(ranked) >= m
        /\ \A i \in 1 .. m : ranked[i] \in SeqSet(gt)

\* C8 (as claimed): for a ground-truth list as read from a held-out line (it
\* may repeat an item) and k >= 1, ndcg_at_k is 1.0 for a perfect ranking and
\* 0.0 for an empty ground truth.
C8_NdcgPerfectIsOne ==
    pc_m = "done" =>
        /\ ground_truth = <<>> => IsZero(metrics.ndcg)
        /\ (ground_truth # <<>> /\ PerfectRanking(ranked_list, ground_truth, k))
              => IsOne(metrics.ndcg)

\* C6: for every evaluated user the candidate set is (all items minus the
\* user's training items) union the user's ground-truth items: an item id is
\* a candidate exactly when it is no training item or is a ground-truth item,
\* so every ground-truth item is a candidate and no training item outside the
\* ground truth is one; the ranked top-k are k distinct candidates.
C6_CandidatesKeepGroundTruth ==
    \A e \in 1 .. Len(eval_log) :
        LET r == eval_log[e]
            gt == SeqSet(test_ground_truth[r.user])
            train == DictGet(user_item_dict, r.user)
            cand == SeqSet(r.candidates)
        IN  /\ cand \subseteq (0 .. num_items - 1) \cup gt
            /\ \A item \in (0 .. num_items - 1) \cup gt :
                  item \in cand <=> (item \notin train \/ item \in gt)
            /\ Distinct(r.candidates)
            /\ r.ok => /\ Len(r.ranked_items) = k
                       /\ Distinct(r.ranked_items)
                       /\ SeqSet(r.ranked_items) \subseteq cand
                       /\ SeqSet(r.ranked_items) \cap (train \ gt) = {}

\* C6's case: a ranked user whose ground-truth item is also one of its
\* training items, and who has a training item outside the ground truth.
C6_Witness ==
    \E e \in 1 .. Len(eval_log) :
        LET r == eval_log[e]
            gt == SeqSet(test_ground_truth[r.user])
            train == DictGet(user_item_dict, r.user)
        IN  /\ r.ok
            /\ gt \cap train # {}
            /\ train \ gt # {}

\* What evaluate_model computes for one user, whatever its batch.
PerUser(u) ==
    EvaluateUser(u, user_emb[u], item_emb, num_items, test_ground_truth,
                 user_item_dict, k, topk_ties)
GtUsers == SortedSeq(DOMAIN test_ground_truth)
\* The ground-truth users before the first whose top-k fails.
Evaluable ==
    LET bad == {j \in 1 .. Len(GtUsers) : ~PerUser(GtUsers[j]).ok}
    IN  IF bad = {} THEN GtUsers
        ELSE SubSeq(GtUsers, 1, (CHOOSE j \in bad : \A o \in bad : j <= o) - 1)

\* C9: for fixed embeddings, ground truth, interaction sets and k, the result
\* of evaluate_model is the same for every batch_size: the metric lists hold,
\* in ground-truth order, each user's own metrics (computed from that user's
\* embedding alone), every ground-truth user is evaluated exactly once, the
\* returned means are those of these lists, and the call fails exactly when
\* some user's top-k fails.
C9_BatchSizeInvariant ==
    /\ pc_ev = "done" =>
          /\ Evaluable = GtUsers
          /\ [e \in 1 .. Len(eval_log) |-> eval_log[e].user] = GtUsers
          /\ recall_list = [j \in 1 .. Len(GtUsers) |-> PerUser(GtUsers[j]).recall]
          /\ precision_list = [j \in 1 .. Len(GtUsers) |-> PerUser(GtUsers[j]).precision]
          /\ ndcg_list = [j \in 1 .. Len(GtUsers) |-> PerUser(GtUsers[j]).ndcg]
          /\ ret_ev = <<NpMean(recall_list), NpMean(precision_list), NpMean(ndcg_list)>>
    /\ pc_ev = "error" =>
          /\ Evaluable # GtUsers
          /\ recall_list = [j \in 1 .. Len(Evaluable) |-> PerUser(Evaluable[j]).recall]
          /\ [e \in 1 .. Len(eval_log) |-> eval_log[e].user]
                = SubSeq(GtUsers, 1, Len(Evaluable) + 1)
    /\ pc_ev = "loop" =>
          /\ Len(Evaluable) >= Min(i_ev, Len(GtUsers))
          /\ recall_list = [j \in 1 .. Min(i_ev, Len(GtUsers)) |-> PerUser(GtUsers[j]).recall]

\* C9's case: an evaluation that took more than one batch, of users with
\* different embeddings and different metrics.
C9_Witness ==
    /\ pc_ev = "done"
    /\ batch_size < Len(test_users)
    /\ user_emb[test_users[1]] # user_emb[test_users[2]]
    /\ recall_list[1] # recall_list[2]

AdjNodes == 0 .. num_users + num_items - 1
\* The distinct undirected edges of the list that touch node n.
EdgesTouching(n) ==
    {{user_item_pairs[p][1], user_item_pairs[p][2] + num_users} :
        p \in {q \in 1 .. Len(user_item_pairs) :
                  \/ user_item_pairs[q][1] = n
                  \/ user_item_pairs[q][2] + num_users = n}}

\* C10 (as claimed): every row sum of A = R + R^T is twice the number of
\* distinct edges touching that node.
C10_RowSumTwiceEdges ==
    pc_adj = "built" =>
        \A n \in AdjNodes : rowsum[n] = 2 * Cardinality(EdgesTouching(n))

\* C10 (amended): every row sum of A = R + R^T is the number of list entries
\* whose user index is that node plus the number whose offset item index is
\* that node; for a list of distinct pairs whose user ids are all below
\* num_users that is the number of distinct edges touching the node, once.
C10_RowSumIsDegree ==
    pc_adj = "built" =>
        /\ \A n \in AdjNodes :
              rowsum[n] =
                  Cardinality({p \in 1 .. Len(user_item_pairs) : user_item_pairs[p][1] = n})
                  + Cardinality({p \in 1 .. Len(user_item_pairs) :
                                   user_item_pairs[p][2] + num_users = n})
        /\ (Distinct(user_item_pairs)
             /\ \A p \in 1 .. Len(user_item_pairs) : user_item_pairs[p][1] < num_users)
              => \A n \in AdjNodes : rowsum[n] = Cardinality(EdgesTouching(n))

\* C10's case: a built matrix of two distinct pairs of one user, whose row
\* sum is 2, and an item node touched by one of them.
C10_Witness ==
    /\ pc_adj = "built"
    /\ Distinct(user_item_pairs)
    /\ \E n \in 0 .. num_users - 1 : rowsum[n] = 2
    /\ \E n \in num_users .. num_users + num_items - 1 : rowsum[n] = 1

\* C11: constructing a model from a list in which some user id is at least
\* num_users + num_items, or some item id is at least num_items, ends in the
\* ValueError of coo_matrix at the caller: no matrix, no normalized adjacency
\* and no model object exist afterwards.
C11_ShapeErrorPropagates ==
    (/\ pc_adj # "start"
     /\ \E p \in 1 .. Len(user_item_pairs) :
           \/ user_item_pairs[p][1] >= num_users + num_items
           \/ user_item_pairs[p][2] >= num_items)
        => /\ pc_adj = "ValueError"
           /\ R = <<>> /\ adj = <<>> /\ rowsum = <<>> /\ norm_adj = <<>>
           /\ model = <<>>

\* C11's case: a construction that failed on an item id of num_items whose
\* user ids are all valid.
C11_Witness ==
    /\ pc_adj = "ValueError"
    /\ model = <<>>
    /\ \E p \in 1 .. Len(user_item_pairs) : user_item_pairs[p][2] = num_items
    /\ \A p \in 1 .. Len(user_item_pairs) : user_item_pairs[p][1] < num_users

\* C12 (as claimed): when train_lightgcn has ended, by the controller's flag,
\* after `epochs` epochs or by an interruption between two epochs, the caller
\* holds the best evaluation score of the run: the controller's best_score.
C12_BestScoreReadable ==
    (pc_tr \in {"done", "KeyboardInterrupt"} /\ best_score # <<>>)
        => ret_tr = best_score

\* The controller has stopped: its flag is true, which C1 says it is from the
\* observation at which the strike counter reached patience.
Stopped == early_stop \/ fired_at # <<>>

Max(S) == CHOOSE x \in S : \A y \in S : y <= x

\* C14: for delta >= 0 and any sequence of scores, a call never lowers a
\* best_score that is set nor unsets it, and after every call best_score is
\* the maximum of the scores accepted as improvements so far and is at least
\* the first score observed.
C14_BestScoreMonotone ==
    [][/\ best_score # <<>> => /\ best_score' # <<>>
                               /\ best_score'[1] >= best_score[1]
       /\ observed' # <<>> => /\ best_score' # <<>>
                              /\ accepted' # <<>>
                              /\ best_score'[1] = Max(SeqSet(accepted'))
                              /\ best_score'[1] >= observed'[1]]_vars

\* C14's case: with delta = 1, a second improvement was accepted, a score
\* above best_score but not above best_score + delta was passed over, and so
\* was a score below best_score.
C14_Witness ==
    /\ delta = 1
    /\ Len(accepted) = 2
    /\ best_score = <<accepted[2]>>
    /\ accepted[2] = accepted[1] + 2
    /\ \E a, b, c, d \in 1 .. Len(observed) :
          /\ a < b /\ b < c /\ c < d
          /\ observed[a] = accepted[1]
          /\ observed[b] = accepted[1] + 1
          /\ observed[c] = accepted[2]
          /\ observed[d] < accepted[2]

\* The entry with the two degree factors in the opposite order; the product
\* (d1 * w) * d2 is the same float as (d2 * w) * d1 when w is 1 or 2,
\* because scaling by a power of two is exact.
Mirror(e) == IF e = <<>> THEN <<>> ELSE <<e[3], e[2], e[1]>>
UserNode(n) == 0 <= n /\ n < num_users
ItemNode(n) == num_users <= n /\ n < num_users + num_items

\* C15 (as claimed): for every list of pairs that build_adj_matrix accepts,
\* repeated pairs included, the normalized adjacency is symmetric, has
\* entries only between a user node in [0, U) and an item node in [U, U+I),
\* and is the matrix the model holds.
C15_NormAdjSymmetricBipartite ==
    pc_adj = "built" =>
        /\ \A a, b \in AdjNodes : norm_adj[b, a] = Mirror(norm_adj[a, b])
        /\ \A a, b \in AdjNodes :
              norm_adj[a, b] # <<>> =>
                  \/ UserNode(a) /\ ItemNode(b)
                  \/ ItemNode(a) /\ UserNode(b)
        /\ model[1].norm_adj = norm_adj

\* C16: after the rebuild of train_lightgcn, no call of train_one_epoch or of
\* evaluate_model changes the interaction dictionary: no key is added or
\* removed and no item set changes, also when evaluate_model handles a
\* ground-truth user that has no key in the dictionary.
C16_DictionaryUnchanged ==
    [][pc_run = "ready" =>
          /\ DOMAIN user_item_dict' = DOMAIN user_item_dict
          /\ \A u \in DOMAIN user_item_dict : user_item_dict'[u] = user_item_dict[u]]_vars

\* C16's case: both functions have been called on a dictionary with a user,
\* and a ground-truth user has no key in it.
C16_Witness ==
    /\ pc_run = "ready"
    /\ n_train >= 1
    /\ n_eval >= 1
    /\ DOMAIN user_item_dict # {}
    /\ \E u \in DOMAIN test_ground_truth : u \notin DOMAIN user_item_dict

\* The size of the candidate set of the ground-truth user u (line 403).
NumCandidates(u) ==
    Cardinality(((0 .. num_items - 1) \ DictGet(user_item_dict, u))
                    \cup SeqSet(test_ground_truth[u]))

\* C18: evaluate_model ranks a user, with exactly k distinct candidates,
\* exactly when k is at most the size of the user's candidate set; for a user
\* with fewer than k candidates torch.topk fails: no shorter list is ranked,
\* no metric of that user is recorded, no later user is handled and the call
\* ends in the error without a result.
C18_TopKNeedsKCandidates ==
    /\ \A e \in 1 .. Len(eval_log) :
          LET r == eval_log[e]
          IN  /\ r.ok <=> k <= NumCandidates(r.user)
              /\ r.ok => /\ Len(r.ranked_items) = k
                         /\ Distinct(r.ranked_items)
                         /\ SeqSet(r.ranked_items) \subseteq SeqSet(r.candidates)
              /\ ~r.ok => /\ r.ranked_items = <<>>
                          /\ e = Len(eval_log)
                          /\ pc_ev = "error"
    /\ pc_ev = "error" =>
          /\ eval_log # <<>>
          /\ ~eval_log[Len(eval_log)].ok
          /\ Len(recall_list) = Len(eval_log) - 1
          /\ ret_ev = <<>>
    /\ pc_ev = "done" =>
          \A u \in DOMAIN test_ground_truth : k <= NumCandidates(u)

\* C18's case: the first user was ranked; the second, who has trained on an
\* item and is left with fewer than k candidates, made the evaluation fail.
C18_Witness ==
    /\ pc_ev = "error"
    /\ Len(eval_log) = 2
    /\ eval_log[1].ok
    /\ Len(eval_log[1].ranked_items) = k
    /\ DictGet(user_item_dict, eval_log[2].user) # {}
    /\ NumCandidates(eval_log[2].user) = k - 1

\* The number of entries of norm_adj at (a, b), rows and columns from 1.
DenseAdj(a, b) ==
    Cardinality({e \in 1 .. Len(norm_adj) :
                    norm_adj[e][1] = a - 1 /\ norm_adj[e][2] = b - 1})
\* Component a of norm_adj^l applied to the current layer-0 embeddings.
RECURSIVE LayerValue(_, _)
LayerValue(l, a) ==
    LET n == Len(user_embedding) + Len(item_embedding)
    IN  IF l = 0 THEN (user_embedding \o item_embedding)[a]
        ELSE SumTo([b \in 1 .. n |-> DenseAdj(a, b) * LayerValue(l - 1, b)], n)
\* The unweighted mean over the layers 0 .. num_layers as <<sum, count>>.
LayerMean(a) ==
    <<SumTo([l \in 1 .. num_layers + 1 |-> LayerValue(l - 1, a)], num_layers + 1),
      num_layers + 1>>
MeanPair ==
    <<[u \in 1 .. num_users |-> LayerMean(u)],
      [it \in 1 .. Len(item_embedding) |-> LayerMean(num_users + it)]>>

\* C17: for every state of the weight tables, every norm_adj and every
\* num_layers >= 0, getEmbedding and forward return the same pair: per node the
\* unweighted mean of the num_layers + 1 layer embeddings of the current
\* tables, split at row num_users, also after the optimizer has changed the
\* tables; with num_layers = 0 it is the layer-0 embeddings themselves.
C17_GetEmbeddingIsForward ==
    /\ (out_get # <<>> /\ out_fwd # <<>>) => out_get = out_fwd
    /\ out_get # <<>> => out_get[1] = MeanPair
    /\ out_fwd # <<>> => out_fwd[1] = MeanPair
    /\ (out_fwd # <<>> /\ num_layers = 0) =>
          /\ out_fwd[1][1] = [u \in 1 .. num_users |-> <<user_embedding[u], 1>>]
          /\ out_fwd[1][2] = [it \in 1 .. Len(item_embedding) |-> <<item_embedding[it], 1>>]
    /\ (out_get # <<>> /\ num_layers = 0) =>
          /\ out_get[1][1] = [u \in 1 .. num_users |-> <<user_embedding[u], 1>>]
          /\ out_get[1][2] = [it \in 1 .. Len(item_embedding) |-> <<item_embedding[it], 1>>]

\* C17's case: after an optimizer step both functions were called on a model
\* of two layers whose norm_adj links a user and an item, and the user's mean
\* is not its layer-0 embedding.
C17_Witness ==
    /\ stepped
    /\ out_get # <<>>
    /\ out_fwd # <<>>
    /\ num_layers = 2
    /\ \E e \in 1 .. Len(norm_adj) : norm_adj[e][1] < num_users /\ norm_adj[e][2] >= num_users
    /\ \E u \in 1 .. num_users : out_fwd[1][1][u][1] # out_fwd[1][1][u][2] * user_embedding[u]

====
